---- MODULE Spec2Model ----
(***************************************************************************)
(* Verification session orchestration and risk engine of the BrainSAIT     *)
(* identity-on-demand application:                                         *)
(*   - BrainSAITSecurityService.validateVerificationRequest (risk score),  *)
(*   - StripeIdentityService.createVerificationSession (browser side),     *)
(*   - POST /api/create-verification-session (edge function),              *)
(*   - GET /api/verification-session/{id} (status poll).                   *)
(* Time is Date.now() in milliseconds.                                      *)
(***************************************************************************)
EXTENDS Integers, Sequences, FiniteSets, TLC

(* ------------------------------ bounds --------------------------------- *)
MaxCalls == 4          \* browser calls of createVerificationSession
MaxFlows == 2          \* browser calls followed through to their end
MaxDirect == 2         \* direct POSTs to /api/create-verification-session
MaxTicks == 2          \* clock advances
MaxPolls == 3          \* status polls issued
MaxProviderMoves == 3  \* status changes at the identity provider
MaxFpChanges == 1      \* rewrites of the fingerprint kept in sessionStorage
StartTime == 10000     \* Date.now() at page load
MaxAutoPolls == 16     \* status requests issued by the polling timer
MaxManual == 1         \* manual refreshes of the result page
MaxInFlight == 2       \* timer requests awaiting their response
MaxRefGets == 3        \* GETs of the Sudan regional data
MaxSockets == 3        \* WebSockets made by initializeMCP
MaxRuns == 2           \* runs of runPreflight awaiting the readiness check

Calls == 1..MaxCalls
Directs == (MaxCalls + 1)..(MaxCalls + MaxDirect)
Reqs == Calls \cup Directs
Pollers == {1, 2}

(* --------------------------- program constants ------------------------- *)
maxVerificationAttempts == 3
BurstWindowMs == 5000
BlockThreshold == 70
AttemptWeight == 50
BurstWeight == 30
DeviceWeight == 40
HeadlessWeight == 60
AutomationWeight == 50
GeoWeight == 20
VpnWeight == 25
AdvancedCap == 100
SessionTtlMs == 86400000   \* expires_at: datetime('now', '+24 hours')
ReportThreshold == 50      \* logSecurityEvent: result.riskScore > 50
IncidentCap == 100         \* reportSecurityIncident: keep only last 100
MAX_POLL_ATTEMPTS == 15
ReferenceTtl == 3600       \* CACHE.put(cacheKey, ..., { expirationTtl: 3600 })
StatusTtl == 300           \* CACHE.put(`session_${sessionId}`, ..., { expirationTtl: 300 })
MsPerSecond == 1000

TickMs == {1, BurstWindowMs}
Countries == {"SA", "SD", "US"}
Fingerprints == {"fpA", "fpB"}
DeviceFp == "fpA"      \* what generateDeviceFingerprint yields on this device
NoFp == "none"

(* reference tables healthcare_facilities and sudan_wilayas *)
FacilityTable ==
  [ KSA001 |-> [is_active |-> TRUE,  nphies_certified |-> TRUE],
    KSA002 |-> [is_active |-> FALSE, nphies_certified |-> TRUE],
    KSA003 |-> [is_active |-> TRUE,  nphies_certified |-> FALSE] ]
WilayaTable ==
  [ SD01 |-> [is_active |-> TRUE],
    SD02 |-> [is_active |-> FALSE] ]
Absent == "absent"     \* an optional field that was not supplied
NoCtx == "noctx"       \* an optional context object that was not supplied
FacilityCodes == {"KSA001", "KSA002", "KSA003", "KSA999", Absent}
WilayaCodes == {"SD01", "SD02", "SD99", Absent}
\* reference table sudan_ministries
MinistryTable ==
  [ MIN01 |-> [is_active |-> TRUE],
    MIN02 |-> [is_active |-> FALSE] ]
MinistryCodes == {"MIN01", "MIN02", "MIN99"}

VARIABLES
  now,              \* Date.now()
  ticks,            \* clock advances so far
  env,              \* build-time configuration and browser traits
  sessionFp,        \* sessionStorage['brainsait_device_fp']
  fpChanges,        \* rewrites of sessionFp so far
  securityMetrics,  \* BrainSAITSecurityService.securityMetrics
  riskLog,          \* one entry per validateVerificationRequest call
  req,              \* session-creation requests: browser calls and direct POSTs
  directPosts,      \* direct POSTs received so far
  provider,         \* identity provider: session id -> status
  providerCalls,    \* session-creation calls received by the provider
  providerMoves,    \* provider status changes so far
  db,               \* verification_sessions rows, keyed by stripe_session_id
  completedWrites,  \* number of writes of completed_at per row
  kvSessions,       \* SESSIONS namespace
  kvNeural,         \* NEURAL_CONTEXT namespace
  poll,             \* status-poll handlers
  pollsIssued,      \* status polls started so far
  incidents,        \* localStorage['brainsait_security_incidents']
  page,             \* VerificationResultPage: polling loop and requests
  kvCache,          \* CACHE namespace
  refGet,            \* handler of GET /api/regional/sudan-national
  neuralStore,      \* the useNeuralIntegration store and the sockets it made
  stepper           \* IdentityVerification: step, preflight, form, acknowledgement

vars == << now, ticks, env, sessionFp, fpChanges, securityMetrics, riskLog, req,
           directPosts,
           provider, providerCalls, providerMoves, db, completedWrites,
           kvSessions, kvNeural, poll, pollsIssued,
           incidents, page, kvCache, refGet, neuralStore, stepper >>

Min(a, b) == IF a < b THEN a ELSE b
Max(a, b) == IF a > b THEN a ELSE b

(* ------------------------- OID generation ------------------------------ *)
\* StripeIdentityService.generateOID('verification', countryCode)
generateOID(countryCode, t) ==
  << "1", (IF countryCode = "SA" THEN "682"
           ELSE IF countryCode = "SD" THEN "729" ELSE "000"), t >>

\* the OID built by the edge function from body.country_code
serverOID(country_code, t) ==
  << "1", (IF country_code = "SA" THEN "682"
           ELSE IF country_code = "SD" THEN "729" ELSE "840"), t >>

(* ----------------------------- risk scorer ----------------------------- *)
NewMetrics(fp) ==
  [ verificationAttempts |-> 0, lastAttemptTimestamp |-> 0,
    suspiciousActivityScore |-> 0, deviceFingerprint |-> fp ]

\* the attempt is stamped but not counted
BumpAttempt_NoCount(m, currentTime) ==
  [ m EXCEPT !.lastAttemptTimestamp = currentTime ]

\* metrics.verificationAttempts++; metrics.lastAttemptTimestamp = currentTime
BumpAttempt(m, currentTime) ==
  [ m EXCEPT !.verificationAttempts = @ + 1,
             !.lastAttemptTimestamp = currentTime ]

AttemptPenalty(m) ==
  IF m.verificationAttempts > maxVerificationAttempts THEN AttemptWeight ELSE 0

\* the window is measured from page load
BurstPenalty_SincePageLoad(m, currentTime) ==
  IF currentTime - StartTime < BurstWindowMs THEN BurstWeight ELSE 0

\* evaluated on the metrics as they stand when the check runs
BurstPenalty(m, currentTime) ==
  IF currentTime - m.lastAttemptTimestamp < BurstWindowMs THEN BurstWeight ELSE 0

\* a mismatch weighs as much as a burst
DevicePenalty_AsBurst(m, fp) ==
  IF m.deviceFingerprint # fp THEN BurstWeight ELSE 0

DevicePenalty(m, fp) ==
  IF m.deviceFingerprint # fp THEN DeviceWeight ELSE 0

detectLocationMismatch == FALSE
detectVPNUsage == FALSE

performAdvancedFraudChecks(e) ==
  Min( (IF e.headless THEN HeadlessWeight ELSE 0)
       + (IF e.automation THEN AutomationWeight ELSE 0)
       + (IF detectLocationMismatch THEN GeoWeight ELSE 0)
       + (IF detectVPNUsage THEN VpnWeight ELSE 0), AdvancedCap )

AdvancedPenalty(e) ==
  IF e.enableAdvancedFraudDetection THEN performAdvancedFraudChecks(e) ELSE 0

getRiskReason(riskScore) ==
  IF riskScore >= 90 THEN "High fraud risk detected"
  ELSE IF riskScore >= 70 THEN "Suspicious activity patterns"
  ELSE IF riskScore >= 50 THEN "Multiple failed attempts"
  ELSE "Security threshold exceeded"

NoReason == "undefined"

\* lines 153-186 of validateVerificationRequest, m being the updated metrics
RiskScore(m, currentTime, fp, e) ==
  AttemptPenalty(m) + BurstPenalty(m, currentTime) + DevicePenalty(m, fp)
  + AdvancedPenalty(e)

\* a score equal to the threshold is let through
IsValidScore_Inclusive(riskScore) == riskScore <= BlockThreshold

IsValidScore(riskScore) == riskScore < BlockThreshold

SecurityResult(riskScore) ==
  [ isValid |-> IsValidScore(riskScore),
    riskScore |-> riskScore,
    blockedReason |-> IF IsValidScore(riskScore) THEN NoReason
                      ELSE getRiskReason(riskScore) ]

\* logSecurityEvent / reportSecurityIncident: the incident appended to the
\* list kept in localStorage, the list cut to its last IncidentCap entries
Incident(sessionId, result) ==
  [ type |-> "high_risk_verification", sessionId |-> sessionId,
    risk_score |-> result.riskScore, blocked |-> ~result.isValid ]

reportSecurityIncident(stored, incident) ==
  LET pushed == Append(stored, incident)
  IN IF Len(pushed) > IncidentCap
     THEN SubSeq(pushed, Len(pushed) - IncidentCap + 1, Len(pushed))
     ELSE pushed

logSecurityEvent(stored, sessionId, result) ==
  IF result.riskScore > ReportThreshold
  THEN reportSecurityIncident(stored, Incident(sessionId, result))
  ELSE stored

HasMetrics(k) == k \in DOMAIN securityMetrics
Attempts(k) == IF HasMetrics(k) THEN securityMetrics[k].verificationAttempts ELSE 0


(* ------------------------------- state --------------------------------- *)
NoOid == << "0", "000", 0 >>
NoResult == [ isValid |-> TRUE, riskScore |-> 0, blockedReason |-> NoReason ]
\* national_context holds the context's wilayaCode, ministry_code its
\* ministryCode
NoBody == [ country_code |-> Absent, healthcare_context |-> NoCtx,
            national_context |-> NoCtx, ministry_code |-> Absent,
            neural |-> FALSE ]

\* providerTries counts the fetches of the provider made for the request,
\* lookups the queries of the reference tables, syncTries the fetches of the
\* neural sync endpoint
IdleReq ==
  [ pc |-> "idle", origin |-> "none", countryCode |-> "US",
    oid |-> NoOid, check |-> NoResult, regional |-> "none", posted |-> FALSE,
    body |-> NoBody, srvOid |-> NoOid, lookups |-> 0, providerTries |-> 0,
    stripeId |-> 0,
    status |-> 0,
    sync |-> "none", syncTries |-> 0, outcome |-> "pending",
    error |-> << "none", "none" >> ]

\* seq numbers the invocations in the order of their provider fetches
IdlePoll == [ pc |-> "idle", id |-> 0, cachedOid |-> NoOid, seq |-> 0,
              stripeStatus |-> "none", dbStatus |-> "none", status |-> 0 ]

\* VerificationResultPage before it is mounted. url: the session_id of the
\* page's URL; sessionId: sessionIdRef (0 is null); timer: pollTimerRef is
\* set; intervals: the intervals made by setInterval and not cleared;
\* attempts: attemptsRef; result: the status of verificationResult;
\* pollingError: the message of pollingError; gone: the effect's cleanup ran
\* for the last time; initPending / autoPending / manualPending: calls of
\* refreshStatus awaiting their response; staleInit: calls of initialize whose
\* effect was cleaned up, awaiting their response; last: what the latest call
\* of refreshStatus resolved to; autoIssued / manualIssued count the requests
NoStatus == "none"
NoError == "none"
IdlePage ==
  [ open |-> FALSE, gone |-> FALSE, url |-> 0, sessionId |-> 0,
    timer |-> FALSE, intervals |-> 0, attempts |-> 0,
    result |-> NoStatus, pollingError |-> NoError, last |-> NoStatus,
    initPending |-> FALSE, staleInit |-> 0, autoPending |-> 0,
    manualPending |-> FALSE, autoIssued |-> 0, manualIssued |-> 0 ]
\* handler of GET /api/regional/sudan-national. hit: CACHE.get found the key;
\* queried: the handler read the reference tables; served counts the GETs
NoKey == << "none" >>
IdleRefGet ==
  [ pc |-> "idle", key |-> NoKey, hit |-> FALSE, queried |-> FALSE,
    status |-> 0, body |-> {}, served |-> 0 ]

EnvSet == [ enableAdvancedFraudDetection : BOOLEAN, headless : BOOLEAN,
            automation : BOOLEAN ]

PlainEnv == [ enableAdvancedFraudDetection |-> FALSE, headless |-> FALSE,
              automation |-> FALSE ]

\* everything but localStorage, which outlives the page
\* the store before initializeMCP; sockets holds the readyState of every
\* WebSocket made so far and mcpConnection the index of one (0 is null)
NoSocket == 0
IdleNeural ==
  [ isConnected |-> FALSE, mcpConnection |-> NoSocket,
    obsidianSyncStatus |-> "idle", sockets |-> << >> ]

\* IdentityVerification when mounted: the first step, the mount effect has
\* called runPreflight, the form holds the defaults. runs: calls of
\* runPreflight awaiting performReadinessCheck; filled: the required regional
\* fields of the form are filled
stepOrder == << "preflight", "context", "review", "launch" >>
IdleStepper ==
  [ currentStepIndex |-> 1, loading |-> TRUE, completed |-> FALSE, runs |-> 1,
    countryCode |-> "US", filled |-> FALSE, metadataError |-> FALSE,
    acknowledged |-> FALSE ]

InitPage ==
  /\ neuralStore = IdleNeural
  /\ stepper = IdleStepper
  /\ now = StartTime
  /\ ticks = 0
  /\ env \in EnvSet
  \* the constructor fingerprints the device when fraud detection is enabled
  /\ sessionFp = IF env.enableAdvancedFraudDetection THEN DeviceFp ELSE NoFp
  /\ fpChanges = 0
  /\ securityMetrics = << >>
  /\ riskLog = << >>
  /\ req = [r \in Reqs |-> IdleReq]
  /\ directPosts = 0
  /\ provider = << >>
  /\ providerCalls = 0
  /\ providerMoves = 0
  /\ db = << >>
  /\ completedWrites = << >>
  /\ kvSessions = << >>
  /\ kvNeural = << >>
  /\ poll = [p \in Pollers |-> IdlePoll]
  /\ pollsIssued = 0
  /\ page = IdlePage
  /\ kvCache = << >>
  /\ refGet = IdleRefGet

\* a browser that never reported an incident
Init == InitPage /\ incidents = << >>

\* a browser whose earlier visits left a full incident list
StoredIncidents ==
  [ i \in 1..IncidentCap |-> Incident(generateOID("US", i), SecurityResult(80)) ]
InitUsed == InitPage /\ incidents = StoredIncidents

\* a handler slot is free before its first request and after the last one ended
Free(r) ==
  \/ req[r].pc \in {"idle", "done"}
  \/ req[r].origin = "direct" /\ req[r].pc = "responded"

(* ---------------------------- environment ------------------------------ *)
Tick ==
  /\ ticks < MaxTicks
  /\ \E d \in TickMs : now' = now + d
  /\ ticks' = ticks + 1
  /\ UNCHANGED << neuralStore, stepper, directPosts, incidents, page, kvCache, refGet, env, sessionFp, fpChanges, securityMetrics, riskLog, req,
                  provider, providerCalls, providerMoves, db, completedWrites,
                  kvSessions, kvNeural, poll, pollsIssued >>

\* a day goes by
LongWait ==
  /\ ticks < MaxTicks
  /\ now' = now + SessionTtlMs
  /\ ticks' = ticks + 1
  /\ UNCHANGED << neuralStore, stepper, directPosts, incidents, page, kvCache, refGet, env, sessionFp, fpChanges, securityMetrics, riskLog, req,
                  provider, providerCalls, providerMoves, db, completedWrites,
                  kvSessions, kvNeural, poll, pollsIssued >>

\* sessionStorage is cleared or rewritten between two launches
StorageChange ==
  /\ fpChanges < MaxFpChanges
  /\ \E f \in (Fingerprints \cup {NoFp}) \ {sessionFp} : sessionFp' = f
  /\ fpChanges' = fpChanges + 1
  /\ UNCHANGED << neuralStore, stepper, directPosts, incidents, page, kvCache, refGet, now, ticks, env, securityMetrics, riskLog, req,
                  provider, providerCalls, providerMoves, db, completedWrites,
                  kvSessions, kvNeural, poll, pollsIssued >>

(* --------------- browser: createVerificationSession -------------------- *)
SecurityError(reason) == << "Security validation failed", reason >>

\* the security check's verdict is not acted upon
LaunchRecord_NoThrow(cc, sessionOID, result) ==
  [IdleReq EXCEPT !.pc = "regional", !.origin = "client",
     !.countryCode = cc, !.oid = sessionOID, !.check = result]

\* lines 131-133: a blocked request throws, any other goes on to the
\* regional pre-verification
LaunchRecord(cc, sessionOID, result) ==
  IF result.isValid
  THEN [IdleReq EXCEPT !.pc = "regional", !.origin = "client",
          !.countryCode = cc, !.oid = sessionOID, !.check = result]
  ELSE [IdleReq EXCEPT !.pc = "done", !.origin = "client",
          !.countryCode = cc, !.oid = sessionOID, !.check = result,
          !.outcome = "threw", !.error = SecurityError(result.blockedReason)]

\* lines 120-133 of createVerificationSession with the whole of
\* validateVerificationRequest: every await in it resolves in the microtask
\* queue, so no other handler runs in between.
ClientStart(c, cc) ==
  /\ Free(c)
  /\ \A c2 \in Calls : c2 < c => ~Free(c2)
  /\ Len(riskLog) < MaxCalls
  /\ LET sessionOID == generateOID(cc, now)
           deviceFingerprint == IF sessionFp = NoFp THEN DeviceFp ELSE sessionFp
           currentTime == now
           m0 == IF HasMetrics(sessionOID) THEN securityMetrics[sessionOID]
                 ELSE NewMetrics(deviceFingerprint)
           m1 == BumpAttempt(m0, currentTime)
           riskScore == RiskScore(m1, currentTime, deviceFingerprint, env)
           result == SecurityResult(riskScore)
           m2 == [m1 EXCEPT !.suspiciousActivityScore = riskScore]
       IN /\ sessionFp' = deviceFingerprint
          /\ securityMetrics' =
               [k \in DOMAIN securityMetrics \cup {sessionOID} |->
                  IF k = sessionOID THEN m2 ELSE securityMetrics[k]]
          /\ riskLog' = Append(riskLog,
               [ key |-> sessionOID, t |-> currentTime, country |-> cc,
                 fp |-> deviceFingerprint, hadMetrics |-> HasMetrics(sessionOID),
                 prevAttempts |-> m0.verificationAttempts,
                 prevLast |-> m0.lastAttemptTimestamp,
                 recordedFp |-> m0.deviceFingerprint,
                 attempt |-> AttemptPenalty(m1),
                 burst |-> BurstPenalty(m1, currentTime),
                 device |-> DevicePenalty(m1, deviceFingerprint),
                 advanced |-> AdvancedPenalty(env),
                 result |-> result ])
          /\ incidents' = logSecurityEvent(incidents, sessionOID, result)
          /\ req' = [req EXCEPT ![c] = LaunchRecord(cc, sessionOID, result)]
  /\ UNCHANGED << neuralStore, stepper, directPosts, page, kvCache, refGet, now, ticks, env, fpChanges, provider, providerCalls,
                  providerMoves, db, completedWrites, kvSessions, kvNeural,
                  poll, pollsIssued >>

(* --------------------- browser: handleLaunch --------------------------- *)
\* isSubmitting: set before createVerificationSession is called, cleared in
\* the finally block
isSubmitting ==
  \E c \in Calls : req[c].origin = "client" /\ req[c].pc \notin {"idle", "done"}

\* `if (isSubmitting) return;`: a launch requested while another one is
\* running returns at once, without alert, callback or call of the service
LaunchIgnored(c) ==
  /\ isSubmitting
  /\ Free(c)
  /\ \A c2 \in Calls : c2 < c => ~Free(c2)
  /\ req' = [req EXCEPT ![c] = [IdleReq EXCEPT !.pc = "done",
                !.origin = "client", !.outcome = "ignored"]]
  /\ UNCHANGED << neuralStore, stepper, directPosts, incidents, page, kvCache, refGet, now, ticks, env, sessionFp, fpChanges, securityMetrics,
                  riskLog, provider, providerCalls, providerMoves, db,
                  completedWrites, kvSessions, kvNeural, poll, pollsIssued >>

\* validateNPHIESContext / validateSudanNIDContext: a registry answer that is
\* not OK, or a failed fetch, is logged as a warning and nothing else
\* skipped: no endpoint configured, or no nphiesId / sudanNationalId supplied
RegionalOutcomes(r) ==
  IF r.countryCode \in {"SA", "SD"} THEN {"skipped", "ok", "warned"}
  ELSE {"skipped"}

\* lines 135-142: when the endpoint is configured and the id supplied, the
\* registry is fetched and the call awaits the answer; no timer and no abort
\* signal is attached to the fetch
ClientRegional(c) ==
  /\ req[c].pc = "regional"
  /\ \/ req' = [req EXCEPT ![c].pc = "fetch", ![c].regional = "skipped"]
     \/ /\ RegionalOutcomes(req[c]) # {"skipped"}
        /\ req' = [req EXCEPT ![c].pc = "awaitRegistry"]
  /\ UNCHANGED << neuralStore, stepper, directPosts, incidents, page, kvCache, refGet, now, ticks, env, sessionFp, fpChanges, securityMetrics,
                  riskLog, provider, providerCalls, providerMoves, db,
                  completedWrites, kvSessions, kvNeural, poll, pollsIssued >>

\* the registry answers (or the connection fails): the awaited fetch settles
RegistryAnswer(c) ==
  /\ req[c].pc = "awaitRegistry"
  /\ \E o \in RegionalOutcomes(req[c]) \ {"skipped"} :
       req' = [req EXCEPT ![c].pc = "fetch", ![c].regional = o]
  /\ UNCHANGED << neuralStore, stepper, directPosts, incidents, page, kvCache, refGet, now, ticks, env, sessionFp, fpChanges, securityMetrics,
                  riskLog, provider, providerCalls, providerMoves, db,
                  completedWrites, kvSessions, kvNeural, poll, pollsIssued >>

\* the JSON body of the POST: country and regional contexts travel inside
\* metadata, the top-level country_code / *_context fields are not sent
ClientBody(r) ==
  [ country_code |-> Absent, healthcare_context |-> NoCtx,
    national_context |-> NoCtx, ministry_code |-> Absent, neural |-> TRUE ]

ClientFetch(c) ==
  /\ req[c].pc = "fetch"
  /\ \/ req' = [req EXCEPT ![c].pc = "srvValidate", ![c].posted = TRUE,
                            ![c].body = ClientBody(req[c])]
     \/ req' = [req EXCEPT ![c].pc = "done", ![c].outcome = "threw",
                            ![c].error = << "fetch failed", "network" >>]
  /\ UNCHANGED << neuralStore, stepper, directPosts, incidents, page, kvCache, refGet, now, ticks, env, sessionFp, fpChanges, securityMetrics,
                  riskLog, provider, providerCalls, providerMoves, db,
                  completedWrites, kvSessions, kvNeural, poll, pollsIssued >>


(* ------------- edge function: POST /api/create-verification-session ---- *)
\* request bodies: each regional context with every kind of code, bodies
\* without context, and contexts that do not belong to the body's country
Body(cc, hc, nc, neural) ==
  [ country_code |-> cc, healthcare_context |-> hc, national_context |-> nc,
    ministry_code |-> Absent, neural |-> neural ]

\* an SD body whose national context names a ministry
MinistryBody(w, m) == [ Body("SD", NoCtx, w, FALSE) EXCEPT !.ministry_code = m ]

DirectBodies ==
  { Body("SA", f, NoCtx, TRUE) : f \in {NoCtx} \cup FacilityCodes }
  \cup { Body("SD", NoCtx, w, TRUE) : w \in {NoCtx} \cup WilayaCodes }
  \cup { Body(cc, NoCtx, NoCtx, FALSE) : cc \in {"US", Absent} }
  \cup { Body("SA", NoCtx, "SD99", FALSE), Body("SD", "KSA999", NoCtx, FALSE),
         Body("US", "KSA999", NoCtx, TRUE), Body(Absent, NoCtx, "SD99", TRUE),
         Body("SA", "KSA001", "SD01", FALSE) }
  \cup { MinistryBody("SD01", m) : m \in MinistryCodes }

DirectPost(d) ==
  /\ Free(d)
  /\ \A d2 \in Directs : d2 < d => ~Free(d2)
  /\ directPosts < MaxDirect
  /\ directPosts' = directPosts + 1
  /\ \E b \in DirectBodies :
       req' = [req EXCEPT ![d] = [IdleReq EXCEPT !.pc = "srvValidate",
                 !.origin = "direct", !.posted = TRUE, !.body = b]]
  /\ UNCHANGED << neuralStore, stepper, incidents, page, kvCache, refGet,
                  now, ticks, env, sessionFp, fpChanges, securityMetrics,
                  riskLog, provider, providerCalls, providerMoves, db,
                  completedWrites, kvSessions, kvNeural, poll, pollsIssued >>

\* a context without facilityCode is refused
validateSaudiFacility_CodeRequired(facilityCode) ==
  /\ facilityCode \in DOMAIN FacilityTable
  /\ FacilityTable[facilityCode].is_active
  /\ FacilityTable[facilityCode].nphies_certified

validateSaudiFacility(facilityCode) ==
  IF facilityCode = Absent THEN TRUE
  ELSE /\ facilityCode \in DOMAIN FacilityTable
       /\ FacilityTable[facilityCode].is_active
       /\ FacilityTable[facilityCode].nphies_certified

\* the query without its is_active condition
validateSudanWilaya_AnyKnown(wilayaCode) ==
  IF wilayaCode = Absent THEN TRUE
  ELSE wilayaCode \in DOMAIN WilayaTable

validateSudanWilaya(wilayaCode) ==
  IF wilayaCode = Absent THEN TRUE
  ELSE /\ wilayaCode \in DOMAIN WilayaTable
       /\ WilayaTable[wilayaCode].is_active

NeedsFacilityCheck(b) == b.country_code = "SA" /\ b.healthcare_context # NoCtx
NeedsWilayaCheck(b) == b.country_code = "SD" /\ b.national_context # NoCtx

\* the reference-table queries the two checks make for a body: none when
\* the check is not called or returns before its query (`if (!code) return true`)
Lookups(b) ==
  (IF NeedsFacilityCheck(b) /\ b.healthcare_context # Absent THEN 1 ELSE 0)
  + (IF NeedsWilayaCheck(b) /\ b.national_context # Absent THEN 1 ELSE 0)

\* lines 44-63: TRUE when neither regional check rejects the body
RegionalValid(b) ==
  /\ NeedsFacilityCheck(b) => validateSaudiFacility(b.healthcare_context)
  /\ NeedsWilayaCheck(b) => validateSudanWilaya(b.national_context)

Respond(r, code) == [req EXCEPT ![r].pc = "responded", ![r].status = code]

\* the catch block of lines 155-164; step names what threw
ServerError(step) == << "Internal server error", step >>
\* a failed store write is not noticed and the handler goes on
Caught_StoreUnnoticed(r, step) ==
  IF step = "store" THEN [req EXCEPT ![r].pc = "srvKv"]
  ELSE [req EXCEPT ![r].pc = "responded", ![r].status = 500,
                   ![r].error = ServerError(step)]

Caught(r, step) ==
  [req EXCEPT ![r].pc = "responded", ![r].status = 500,
              ![r].error = ServerError(step)]

\* lines 36-63: parse, build the OID, validate the regional context
SrvValidate(r) ==
  /\ req[r].pc = "srvValidate"
  /\ LET b == req[r].body
         sessionOID == serverOID(b.country_code, now)
     IN \/ /\ RegionalValid(b)
           /\ req' = [req EXCEPT ![r].pc = "srvStripe", ![r].srvOid = sessionOID,
                                 ![r].lookups = Lookups(b)]
        \/ /\ ~RegionalValid(b)
           /\ req' = [req EXCEPT ![r].pc = "responded", ![r].status = 400,
                                 ![r].srvOid = sessionOID,
                                 ![r].lookups = Lookups(b)]
        \/ \* the registry query throws: caught at line 155
           /\ Lookups(b) > 0
           /\ req' = [Caught(r, "registry") EXCEPT ![r].srvOid = sessionOID,
                                                   ![r].lookups = Lookups(b)]
  /\ UNCHANGED << neuralStore, stepper, directPosts, incidents, page, kvCache, refGet, now, ticks, env, sessionFp, fpChanges, securityMetrics,
                  riskLog, provider, providerCalls, providerMoves, db,
                  completedWrites, kvSessions, kvNeural, poll, pollsIssued >>

ProviderErrorStatuses == {402, 503}
\* the provider names each session it creates
NewStripeId == providerCalls + 1

\* lines 65-92: the provider call
SrvStripe(r) ==
  /\ req[r].pc = "srvStripe"
  /\ \/ /\ provider' = [i \in DOMAIN provider \cup {NewStripeId} |->
                          IF i = NewStripeId THEN "requires_input" ELSE provider[i]]
        /\ providerCalls' = providerCalls + 1
        /\ req' = [req EXCEPT ![r].pc = "srvInsert", ![r].stripeId = NewStripeId,
                              ![r].providerTries = @ + 1]
     \/ /\ \E code \in ProviderErrorStatuses :
             req' = [Respond(r, code) EXCEPT ![r].providerTries = @ + 1]
        /\ providerCalls' = providerCalls + 1
        /\ UNCHANGED provider
     \/ \* fetch rejects: caught at line 155
        /\ req' = [Caught(r, "provider") EXCEPT ![r].providerTries = @ + 1]
        /\ UNCHANGED << provider, providerCalls >>
  /\ UNCHANGED << neuralStore, stepper, directPosts, incidents, page, kvCache, refGet, now, ticks, env, sessionFp, fpChanges, securityMetrics,
                  riskLog, providerMoves, db, completedWrites, kvSessions,
                  kvNeural, poll, pollsIssued >>

OidTaken(o) == \E i \in DOMAIN db : db[i].session_oid = o

NewRow(r) ==
  [ session_oid |-> r.srvOid, session_status |-> "created",
    country_context |-> IF r.body.country_code = Absent THEN "US"
                        ELSE r.body.country_code,
    healthcare_context |-> r.body.healthcare_context,
    national_context |-> r.body.national_context,
    completed_at |-> 0,
    expires_at |-> now + SessionTtlMs,
    \* bookkeeping, not a column: the latest invocation that wrote the row
    status_seq |-> 0 ]

\* lines 94-111: INSERT INTO verification_sessions (session_oid is UNIQUE)
SrvInsert(r) ==
  /\ req[r].pc = "srvInsert"
  /\ \/ /\ ~OidTaken(req[r].srvOid)
        /\ db' = [i \in DOMAIN db \cup {req[r].stripeId} |->
                    IF i = req[r].stripeId THEN NewRow(req[r]) ELSE db[i]]
        /\ completedWrites' = [i \in DOMAIN db \cup {req[r].stripeId} |->
                    IF i = req[r].stripeId THEN 0 ELSE completedWrites[i]]
        /\ req' = [req EXCEPT ![r].pc = "srvKv"]
     \/ \* constraint violation or store failure: caught at line 155
        /\ req' = Caught(r, "store")
        /\ UNCHANGED << db, completedWrites >>
  /\ UNCHANGED << neuralStore, stepper, directPosts, incidents, page, kvCache, refGet, now, ticks, env, sessionFp, fpChanges, securityMetrics,
                  riskLog, provider, providerCalls, providerMoves,
                  kvSessions, kvNeural, poll, pollsIssued >>

\* SESSIONS.put is not awaited: the handler goes on whether or not the entry
\* was written
SrvKv_NotAwaited(r) ==
  /\ req[r].pc = "srvKv"
  /\ \/ kvSessions' = [i \in DOMAIN kvSessions \cup {req[r].stripeId} |->
              IF i = req[r].stripeId
              THEN [ session_oid |-> req[r].srvOid,
                     country_code |-> req[r].body.country_code ]
              ELSE kvSessions[i]]
     \/ UNCHANGED kvSessions
  /\ req' = IF req[r].body.neural THEN [req EXCEPT ![r].pc = "srvNeural"]
            ELSE Respond(r, 200)
  /\ UNCHANGED << neuralStore, stepper, directPosts, incidents, page, kvCache,
                  refGet, now, ticks, env, sessionFp, fpChanges,
                  securityMetrics, riskLog, provider, providerCalls,
                  providerMoves, db, completedWrites, kvNeural, poll,
                  pollsIssued >>

\* lines 113-119 (and 139-153 when neural integration is off)
SrvKv(r) ==
  /\ req[r].pc = "srvKv"
  /\ \/ /\ kvSessions' = [i \in DOMAIN kvSessions \cup {req[r].stripeId} |->
                 IF i = req[r].stripeId
                 THEN [ session_oid |-> req[r].srvOid,
                        country_code |-> req[r].body.country_code ]
                 ELSE kvSessions[i]]
        /\ req' = IF req[r].body.neural THEN [req EXCEPT ![r].pc = "srvNeural"]
                  ELSE Respond(r, 200)
     \/ /\ req' = Caught(r, "cache")
        /\ UNCHANGED kvSessions
  /\ UNCHANGED << neuralStore, stepper, directPosts, incidents, page, kvCache, refGet, now, ticks, env, sessionFp, fpChanges, securityMetrics,
                  riskLog, provider, providerCalls, providerMoves, db,
                  completedWrites, kvNeural, poll, pollsIssued >>

\* lines 121-153
SrvNeural(r) ==
  /\ req[r].pc = "srvNeural"
  /\ \/ /\ kvNeural' = [o \in DOMAIN kvNeural \cup {req[r].srvOid} |->
                          IF o = req[r].srvOid THEN req[r].stripeId ELSE kvNeural[o]]
        /\ req' = Respond(r, 200)
     \/ /\ req' = Caught(r, "neural")
        /\ UNCHANGED kvNeural
  /\ UNCHANGED << neuralStore, stepper, directPosts, incidents, page, kvCache, refGet, now, ticks, env, sessionFp, fpChanges, securityMetrics,
                  riskLog, provider, providerCalls, providerMoves, db,
                  completedWrites, kvSessions, poll, pollsIssued >>

(* --------- browser: the response of the POST, then neural sync --------- *)
\* lines 168-172
ClientResponse(c) ==
  /\ req[c].pc = "responded"
  /\ req[c].origin = "client"
  /\ req' = IF req[c].status = 200
            THEN [req EXCEPT ![c].pc = "sync"]
            ELSE [req EXCEPT ![c].pc = "done", ![c].outcome = "threw",
                    ![c].error = << "Failed to create verification session",
                                    "http" >>]
  /\ UNCHANGED << neuralStore, stepper, directPosts, incidents, page, kvCache, refGet, now, ticks, env, sessionFp, fpChanges, securityMetrics,
                  riskLog, provider, providerCalls, providerMoves, db,
                  completedWrites, kvSessions, kvNeural, poll, pollsIssued >>

\* syncWithNeuralSystem: one fetch inside try / catch; a rejection is logged
\* as a warning and the message is gone
SyncTries(o) == IF o = "skipped" THEN 0 ELSE 1

\* lines 174-185: skipped when no endpoint is configured
ClientSync(c) ==
  /\ req[c].pc = "sync"
  /\ \E o \in {"skipped", "sent", "failed"} :
       req' = [req EXCEPT ![c].pc = "done", ![c].sync = o,
                          ![c].syncTries = SyncTries(o),
                          ![c].outcome = "returned"]
  /\ UNCHANGED << neuralStore, stepper, directPosts, incidents, page, kvCache, refGet, now, ticks, env, sessionFp, fpChanges, securityMetrics,
                  riskLog, provider, providerCalls, providerMoves, db,
                  completedWrites, kvSessions, kvNeural, poll, pollsIssued >>


(* -------------------- browser: VerificationResultPage ------------------ *)
\* refreshStatus resolves to the status the endpoint reports, or to null
\* (NoStatus) when the request fails
RefreshOutcomes(id) ==
  (IF id \in DOMAIN provider THEN {provider[id]} ELSE {}) \cup {NoStatus}

\* a missing status is not terminal
isTerminalStatus(status) == status # NoStatus /\ status # "processing"

\* a second interval is made while one is running
startPollingLoop_NoGuard(pg) ==
  [pg EXCEPT !.timer = TRUE, !.intervals = @ + 1, !.attempts = 0,
             !.pollingError = NoError]

startPollingLoop(pg) ==
  IF pg.timer THEN pg
  ELSE [pg EXCEPT !.timer = TRUE, !.intervals = @ + 1, !.attempts = 0,
                  !.pollingError = NoError]

stopPollingLoop(pg) ==
  [pg EXCEPT !.timer = FALSE,
             !.intervals = IF pg.timer THEN @ - 1 ELSE @,
             !.attempts = 0]

\* the response is taken whatever sessionIdRef holds by now
Tracked_Unchecked(pg) == TRUE

\* sessionIdRef.current still is the id the request was made for
Tracked(pg) == pg.sessionId = pg.url

\* what refreshStatus resolves to when the status call ends with o
Returned(pg, o) == IF Tracked(pg) THEN o ELSE NoStatus

\* the state refreshStatus sets when the status call ends with o
Seen(pg, o) ==
  IF ~Tracked(pg) THEN [pg EXCEPT !.last = NoStatus]
  ELSE IF o = NoStatus THEN [pg EXCEPT !.last = o, !.pollingError = "refresh"]
  ELSE [pg EXCEPT !.result = o, !.last = o, !.pollingError = NoError]

PageFrame ==
  UNCHANGED << neuralStore, stepper, directPosts, incidents, kvCache, refGet, now, ticks, env, sessionFp,
               fpChanges, securityMetrics, riskLog, req, provider, providerCalls,
               providerMoves, db, completedWrites, kvSessions, kvNeural, poll,
               pollsIssued >>

\* the effect of lines 397-433 up to the first await: the page is mounted
\* with the session_id of its URL and asks for the status. Under
\* React.StrictMode the effect runs, is cleaned up and runs again at once,
\* which leaves a canceled initialize waiting besides the live one
PageOpen ==
  /\ ~page.open
  /\ ~page.gone
  /\ \E id \in DOMAIN provider, strict \in BOOLEAN :
       page' = [IdlePage EXCEPT !.open = TRUE, !.url = id, !.sessionId = id,
                                !.initPending = TRUE,
                                !.staleInit = IF strict THEN 1 ELSE 0]
  /\ PageFrame

\* the cleanup of the effect, lines 426-430
PageUnmount ==
  /\ page.open
  /\ page' = stopPollingLoop(
       [page EXCEPT !.open = FALSE, !.gone = TRUE, !.sessionId = 0,
                    !.initPending = FALSE,
                    !.staleInit = IF page.initPending THEN @ + 1 ELSE @])
  /\ PageFrame

\* initialize, after its await
PageInitResponse ==
  /\ page.initPending
  /\ \E o \in RefreshOutcomes(page.url) :
       LET pg == [Seen(page, o) EXCEPT !.initPending = FALSE]
       IN page' = IF ~isTerminalStatus(Returned(page, o)) THEN startPollingLoop(pg)
                  ELSE stopPollingLoop(pg)
  /\ PageFrame

\* initialize of a cleaned-up effect, after its await: `if (canceled) return`
PageStaleInitResponse ==
  /\ page.staleInit > 0
  /\ \E o \in RefreshOutcomes(page.url) :
       page' = [Seen(page, o) EXCEPT !.staleInit = @ - 1]
  /\ PageFrame

\* the interval callback of startPollingLoop up to its await; with
\* sessionIdRef null refreshStatus resolves to null at once
PageTick ==
  /\ page.intervals > 0
  /\ \/ /\ page.sessionId # 0
        /\ page.autoPending < MaxInFlight
        /\ page.autoIssued < MaxAutoPolls
        /\ page' = [page EXCEPT !.attempts = @ + 1, !.autoPending = @ + 1,
                                !.autoIssued = @ + 1]
     \/ /\ page.sessionId = 0
        /\ page' = stopPollingLoop([page EXCEPT !.last = NoStatus])
  /\ PageFrame

\* the interval callback after its await
PageAutoResponse ==
  /\ page.autoPending > 0
  /\ \E o \in RefreshOutcomes(page.url) :
       LET pg == [Seen(page, o) EXCEPT !.autoPending = @ - 1]
           ret == Returned(page, o)
       IN page' = IF ret = NoStatus \/ isTerminalStatus(ret) THEN stopPollingLoop(pg)
                  ELSE IF pg.attempts >= MAX_POLL_ATTEMPTS
                       THEN stopPollingLoop([pg EXCEPT !.pollingError = "paused"])
                  ELSE pg
  /\ PageFrame

\* handleManualRefresh up to its await
PageManual ==
  /\ page.open
  /\ ~page.manualPending
  /\ page.manualIssued < MaxManual
  /\ page' = [page EXCEPT !.manualPending = TRUE, !.manualIssued = @ + 1]
  /\ PageFrame

\* handleManualRefresh after its await
PageManualResponse ==
  /\ page.manualPending
  /\ \E o \in RefreshOutcomes(page.url) :
       LET pg == [Seen(page, o) EXCEPT !.manualPending = FALSE]
       IN page' = IF ~isTerminalStatus(Returned(page, o)) THEN startPollingLoop(pg)
                  ELSE stopPollingLoop(pg)
  /\ PageFrame

(* -------------------------- identity provider -------------------------- *)
\* status changes of a verification session at the provider
ProviderNext(st) ==
  CASE st = "requires_input" -> {"processing", "canceled"}
    [] st = "processing"     -> {"verified", "requires_input"}
    [] OTHER                 -> {}

ProviderMove ==
  /\ providerMoves < MaxProviderMoves
  /\ \E i \in DOMAIN provider : \E st \in ProviderNext(provider[i]) :
       provider' = [provider EXCEPT ![i] = st]
  /\ providerMoves' = providerMoves + 1
  /\ UNCHANGED << neuralStore, stepper, directPosts, incidents, page, kvCache, refGet, now, ticks, env, sessionFp, fpChanges, securityMetrics,
                  riskLog, req, providerCalls, db, completedWrites,
                  kvSessions, kvNeural, poll, pollsIssued >>

(* ------------------------- the CACHE namespace ------------------------- *)
\* an entry is gone expirationTtl seconds after it was put
Live(entry) == now < entry.putAt + entry.ttl * MsPerSecond

CacheHit(key) == key \in DOMAIN kvCache /\ Live(kvCache[key])

CachePut(key, value, ttl) ==
  [k \in DOMAIN kvCache \cup {key} |->
     IF k = key THEN [value |-> value, ttl |-> ttl, putAt |-> now]
     ELSE kvCache[k]]

(* ---------- edge function: GET /api/regional/sudan-national ------------ *)
\* `sudan_national_${wilayaCode || 'all'}_${ministryCode || 'all'}_${nationalId || 'query'}`
cacheKey(wilayaCode, ministryCode) ==
  << "sudan_national",
     (IF wilayaCode = Absent THEN "all" ELSE wilayaCode),
     (IF ministryCode = Absent THEN "all" ELSE ministryCode), "query" >>

RefQueries == { << w, m >> : w \in {Absent, "SD01"}, m \in {Absent} }

\* the rows the two SELECTs of lines 32-69 return
RegionalData(key) ==
  { w \in DOMAIN WilayaTable :
      WilayaTable[w].is_active /\ (key[2] = "all" \/ key[2] = w) }
  \cup { m \in DOMAIN MinistryTable :
      MinistryTable[m].is_active /\ (key[3] = "all" \/ key[3] = m) }

RefFrame ==
  UNCHANGED << neuralStore, stepper, directPosts, incidents, page, now, ticks, env, sessionFp, fpChanges,
               securityMetrics, riskLog, req, provider, providerCalls,
               providerMoves, db, completedWrites, kvSessions, kvNeural, poll,
               pollsIssued >>

RefDone(code) == [refGet EXCEPT !.pc = "idle", !.status = code]

\* lines 17-30: the cache is read first and a hit is the answer
RefGetStart ==
  /\ refGet.pc = "idle"
  /\ refGet.served < MaxRefGets
  /\ \E q \in RefQueries :
       LET key == cacheKey(q[1], q[2])
           started == [IdleRefGet EXCEPT !.key = key, !.served = refGet.served + 1]
       IN \/ /\ CacheHit(key)
             /\ refGet' = [started EXCEPT !.hit = TRUE, !.status = 200,
                                           !.body = kvCache[key].value]
          \/ /\ ~CacheHit(key)
             /\ refGet' = [started EXCEPT !.pc = "query"]
          \/ \* CACHE.get throws: caught at line 139
             refGet' = [started EXCEPT !.status = 500]
  /\ UNCHANGED kvCache
  /\ RefFrame

\* lines 32-123: the reference tables are read
RefGetQuery ==
  /\ refGet.pc = "query"
  /\ \/ refGet' = [refGet EXCEPT !.pc = "put", !.queried = TRUE,
                                  !.body = RegionalData(refGet.key)]
     \/ refGet' = [RefDone(500) EXCEPT !.queried = TRUE]
  /\ UNCHANGED kvCache
  /\ RefFrame

\* lines 125-137: the answer is cached for an hour, then sent
RefGetPut ==
  /\ refGet.pc = "put"
  /\ \/ /\ kvCache' = CachePut(refGet.key, refGet.body, ReferenceTtl)
        /\ refGet' = RefDone(200)
     \/ /\ refGet' = RefDone(500)
        /\ UNCHANGED kvCache
  /\ RefFrame

(* ------------ edge function: GET /api/verification-session/{id} -------- *)
UnknownId == 0
CompletingStatuses == {"verified", "requires_input"}

\* the handler returned: what is left is the response
PollDone(p, code) == [IdlePoll EXCEPT !.status = code]

\* lines 264-287: session cache lookup, then the provider's current status
PollFetch(p) ==
  /\ poll[p].pc = "idle"
  /\ \A q \in Pollers : q < p => poll[q].pc # "idle"
  /\ pollsIssued < MaxPolls
  /\ pollsIssued' = pollsIssued + 1
  /\ \E id \in DOMAIN provider \cup {UnknownId} :
       LET cached == IF id \in DOMAIN kvSessions THEN kvSessions[id].session_oid
                     ELSE NoOid
       IN \/ /\ id \in DOMAIN provider
             /\ poll' = [poll EXCEPT ![p] = [IdlePoll EXCEPT !.pc = "select",
                           !.id = id, !.cachedOid = cached,
                           !.seq = pollsIssued + 1,
                           !.stripeStatus = provider[id]]]
          \/ /\ id \notin DOMAIN provider
             /\ poll' = [poll EXCEPT ![p] = PollDone(p, 404)]
          \/ \* fetch rejects: caught at line 357
             poll' = [poll EXCEPT ![p] = PollDone(p, 500)]
  /\ UNCHANGED << neuralStore, stepper, directPosts, incidents, page, kvCache, refGet, now, ticks, env, sessionFp, fpChanges, securityMetrics,
                  riskLog, req, provider, providerCalls, providerMoves, db,
                  completedWrites, kvSessions, kvNeural >>

\* lines 289-312: the stored row
PollSelect(p) ==
  /\ poll[p].pc = "select"
  /\ \/ poll' = [poll EXCEPT ![p].pc = "update",
                   ![p].dbStatus = IF poll[p].id \in DOMAIN db
                                   THEN db[poll[p].id].session_status
                                   ELSE "norow"]
     \/ poll' = [poll EXCEPT ![p] = PollDone(p, 500)]
  /\ UNCHANGED << neuralStore, stepper, directPosts, incidents, page, kvCache, refGet, now, ticks, env, sessionFp, fpChanges, securityMetrics,
                  riskLog, req, provider, providerCalls, providerMoves, db,
                  completedWrites, kvSessions, kvNeural, pollsIssued >>

\* the UPDATE statement of lines 316-320
UpdateRow(row, status, t) ==
  [ row EXCEPT !.session_status = status,
               !.completed_at = IF status \in CompletingStatuses THEN t
                                ELSE row.completed_at ]

\* the key of line 346
StatusKey(id) == << "session", id >>

\* lines 314-355: the UPDATE, then the response is put in CACHE for 5 minutes
PollUpdate(p) ==
  /\ poll[p].pc = "update"
  /\ LET id == poll[p].id
         changed == poll[p].dbStatus # "norow"
                    /\ poll[p].dbStatus # poll[p].stripeStatus
         updated == [db EXCEPT ![id] =
                [UpdateRow(db[id], poll[p].stripeStatus, now)
                   EXCEPT !.status_seq = Max(@, poll[p].seq)]]
         written == [completedWrites EXCEPT ![id] =
                IF poll[p].stripeStatus \in CompletingStatuses THEN @ + 1 ELSE @]
     IN \/ /\ changed
           /\ id \in DOMAIN db
           /\ db' = updated
           /\ completedWrites' = written
           /\ \/ /\ kvCache' = CachePut(StatusKey(id), poll[p].stripeStatus, StatusTtl)
                 /\ poll' = [poll EXCEPT ![p] = PollDone(p, 200)]
              \/ \* CACHE.put throws: caught at line 357
                 /\ poll' = [poll EXCEPT ![p] = PollDone(p, 500)]
                 /\ UNCHANGED kvCache
        \/ /\ ~changed
           /\ kvCache' = CachePut(StatusKey(id), poll[p].stripeStatus, StatusTtl)
           /\ poll' = [poll EXCEPT ![p] = PollDone(p, 200)]
           /\ UNCHANGED << db, completedWrites >>
        \/ \* the UPDATE throws: caught at line 357
           /\ changed
           /\ poll' = [poll EXCEPT ![p] = PollDone(p, 500)]
           /\ UNCHANGED << db, completedWrites, kvCache >>
  /\ UNCHANGED << neuralStore, stepper, directPosts, incidents, page, refGet, now, ticks, env, sessionFp,
                  fpChanges, securityMetrics, riskLog, req, provider,
                  providerCalls, providerMoves, kvSessions, kvNeural,
                  pollsIssued >>

(* ------------------- IdentityVerification: the stepper ----------------- *)
currentStep == stepOrder[stepper.currentStepIndex]

\* computeValidation(...).valid: no issue of severity error
validationValid(st) ==
  /\ st.countryCode \in {"SA", "SD"} => st.filled
  /\ ~st.metadataError

\* runPreflight up to its await
runPreflight(st) == [st EXCEPT !.loading = TRUE, !.runs = @ + 1]

canNavigateTo(st, target) ==
  IF target <= st.currentStepIndex THEN TRUE
  ELSE IF stepOrder[target] = "context" THEN st.completed
  ELSE st.completed /\ validationValid(st)

StepperFrame ==
  UNCHANGED << neuralStore, directPosts, incidents, page, kvCache, refGet, now,
               ticks, env, sessionFp, fpChanges, securityMetrics, riskLog, req,
               provider, providerCalls, providerMoves, db, completedWrites,
               kvSessions, kvNeural, poll, pollsIssued >>

\* runPreflight after its await: the checks are stored; a failed check or a
\* thrown readiness check leaves completed false
PreflightDone ==
  /\ stepper.runs > 0
  /\ \E ok \in BOOLEAN :
       stepper' = [stepper EXCEPT !.runs = @ - 1, !.loading = FALSE,
                                  !.completed = ok]
  /\ StepperFrame

\* the re-run button of the preflight step, disabled while loading
PreflightRerun ==
  /\ currentStep = "preflight"
  /\ ~stepper.loading
  /\ stepper.runs < MaxRuns
  /\ stepper' = runPreflight(stepper)
  /\ StepperFrame

handleStepSelect ==
  /\ \E target \in DOMAIN stepOrder :
       /\ canNavigateTo(stepper, target)
       /\ target # stepper.currentStepIndex
       /\ stepper' = [stepper EXCEPT !.currentStepIndex = target]
  /\ StepperFrame

handleNext ==
  /\ currentStep = "preflight" => ~stepper.loading /\ stepper.completed
  /\ currentStep = "context" => validationValid(stepper)
  /\ stepper.currentStepIndex < Len(stepOrder)
  /\ stepper' = [stepper EXCEPT !.currentStepIndex = @ + 1]
  /\ StepperFrame

handleBack ==
  /\ stepper.currentStepIndex > 1
  /\ stepper' = [stepper EXCEPT !.currentStepIndex = @ - 1]
  /\ StepperFrame

\* the country select of the context step: the regional fields are cleared,
\* the acknowledgement is withdrawn, and the effect on runPreflight (whose
\* dependencies hold formData.countryCode) runs it again
handleCountryChange ==
  /\ currentStep = "context"
  /\ \E cc \in Countries \ {stepper.countryCode} :
       /\ stepper.runs < MaxRuns
       /\ stepper' = runPreflight([stepper EXCEPT !.countryCode = cc,
                                     !.filled = FALSE, !.acknowledged = FALSE])
  /\ StepperFrame

\* the other inputs of the context step
handleInputChange ==
  /\ currentStep = "context"
  /\ stepper' = [stepper EXCEPT !.filled = ~@]
  /\ StepperFrame

handleMetadataChange ==
  /\ currentStep = "context"
  /\ stepper' = [stepper EXCEPT !.metadataError = ~@]
  /\ StepperFrame

\* the checkbox of the launch step
setAcknowledged ==
  /\ currentStep = "launch"
  /\ stepper' = [stepper EXCEPT !.acknowledged = ~@]
  /\ StepperFrame

\* the launch button is rendered in the launch step only; handleLaunch up to
\* the call of createVerificationSession
handleLaunch(c) ==
  /\ currentStep = "launch"
  /\ ~isSubmitting
  /\ stepper.acknowledged
  /\ ~stepper.metadataError
  /\ ClientStart(c, stepper.countryCode)

StepperSteps ==
  \/ PreflightDone
  \/ PreflightRerun
  \/ handleStepSelect
  \/ handleNext
  \/ handleBack
  \/ handleCountryChange
  \/ handleInputChange
  \/ handleMetadataChange
  \/ setAcknowledged

(* --------------------- the neural integration store -------------------- *)
Live_Sockets == {"connecting", "open"}

\* set(...): the store changes; a component that reads isConnected renders
\* again when it changed, and the stepper's effect calls runPreflight
SetStore(next) ==
  /\ neuralStore' = next
  /\ IF next.isConnected # neuralStore.isConnected
     THEN stepper.runs < MaxRuns /\ stepper' = runPreflight(stepper)
     ELSE stepper' = stepper

NeuralFrame ==
  UNCHANGED << directPosts, incidents, page, kvCache, refGet, now,
               ticks, env, sessionFp, fpChanges, securityMetrics, riskLog, req,
               provider, providerCalls, providerMoves, db, completedWrites,
               kvSessions, kvNeural, poll, pollsIssued >>

\* initializeMCP: a new WebSocket with its four handlers; the constructor
\* may throw
initializeMCP ==
  /\ Len(neuralStore.sockets) < MaxSockets
  /\ \/ SetStore([neuralStore EXCEPT !.sockets = Append(@, "connecting")])
     \/ SetStore([neuralStore EXCEPT !.obsidianSyncStatus = "error"])
  /\ NeuralFrame

\* ws.onopen
SocketOpen(i) ==
  /\ neuralStore.sockets[i] = "connecting"
  /\ SetStore([neuralStore EXCEPT !.sockets[i] = "open", !.isConnected = TRUE,
                                  !.mcpConnection = i,
                                  !.obsidianSyncStatus = "connected"])
  /\ NeuralFrame

\* ws.onerror
SocketError(i) ==
  /\ neuralStore.sockets[i] \in Live_Sockets
  /\ SetStore([neuralStore EXCEPT !.obsidianSyncStatus = "error"])
  /\ NeuralFrame

\* ws.onclose of socket i
onclose(i) ==
  [neuralStore EXCEPT !.sockets[i] = "closed", !.isConnected = FALSE,
                      !.mcpConnection = NoSocket,
                      !.obsidianSyncStatus = "idle"]

SocketClose(i) ==
  /\ neuralStore.sockets[i] \in Live_Sockets \cup {"closing"}
  /\ SetStore(onclose(i))
  /\ NeuralFrame

\* disconnect: close() on the socket the store holds, then the store is reset
disconnect ==
  /\ LET mc == neuralStore.mcpConnection
         closing == IF mc # NoSocket /\ neuralStore.sockets[mc] \in Live_Sockets
                    THEN [neuralStore EXCEPT !.sockets[mc] = "closing"]
                    ELSE neuralStore
     IN SetStore([closing EXCEPT !.isConnected = FALSE,
                                 !.mcpConnection = NoSocket,
                                 !.obsidianSyncStatus = "idle"])
  /\ NeuralFrame

NeuralSteps ==
  \/ initializeMCP
  \/ \E i \in 1..MaxSockets : i \in DOMAIN neuralStore.sockets /\ SocketOpen(i)
  \/ \E i \in 1..MaxSockets : i \in DOMAIN neuralStore.sockets /\ SocketError(i)
  \/ \E i \in 1..MaxSockets : i \in DOMAIN neuralStore.sockets /\ SocketClose(i)
  \/ disconnect

(* ---------------------------- specification ---------------------------- *)
Environment == Tick \/ StorageChange

\* the risk engine: every launch up to the decision of the security check
NextRisk ==
  \/ Environment
  \/ \E c \in Calls, cc \in Countries : ClientStart(c, cc)

\* session creation by browser calls C and direct POSTs D
Starts(C, CC, D) ==
  \/ \E c \in C, cc \in CC : ClientStart(c, cc)
  \/ \E d \in D : DirectPost(d)

\* the steps the application takes by itself
OwnSteps(C, D) ==
  \/ \E c \in C : ClientRegional(c)
  \/ \E c \in C : ClientFetch(c)
  \/ \E r \in C \cup D : SrvValidate(r)
  \/ \E r \in C \cup D : SrvStripe(r)
  \/ \E r \in C \cup D : SrvInsert(r)
  \/ \E r \in C \cup D : SrvKv(r)
  \/ \E r \in C \cup D : SrvNeural(r)
  \/ \E c \in C : ClientResponse(c)
  \/ \E c \in C : ClientSync(c)

Steps(C, D) ==
  \/ OwnSteps(C, D)
  \/ \E c \in C : RegistryAnswer(c)

StatusReads ==
  \/ \E p \in Pollers : PollFetch(p)
  \/ \E p \in Pollers : PollSelect(p)
  \/ \E p \in Pollers : PollUpdate(p)

Polling ==
  \/ ProviderMove
  \/ StatusReads

RefGets ==
  \/ RefGetStart
  \/ RefGetQuery
  \/ RefGetPut

NoneInFlight == \A r \in Reqs : Free(r)

PageSteps ==
  \/ PageOpen
  \/ PageUnmount
  \/ PageInitResponse
  \/ PageStaleInitResponse
  \/ PageTick
  \/ PageAutoResponse
  \/ PageManual
  \/ PageManualResponse

\* launches from the browser, one at a time, followed to their end; the
\* clock and sessionStorage change between launches
NextCreate ==
  \/ NoneInFlight /\ Tick
  \/ NoneInFlight /\ StorageChange
  \/ NoneInFlight /\ Len(riskLog) < MaxFlows /\ Starts(Calls, Countries, {})
  \/ Steps(Calls, {})

\* a browser with fraud detection switched off (the edge function never
\* sees the browser's configuration)
InitPlain == Init /\ env = PlainEnv

\* direct POSTs to the edge function, one at a time
NextDirect ==
  \/ Tick
  \/ NoneInFlight /\ Starts({}, {}, Directs)
  \/ Steps({}, Directs)

\* a browser without fraud detection launches sessions for one country, one
\* at a time, and the sessions created are polled between launches
NextPoll ==
  \/ NoneInFlight /\ Len(riskLog) < MaxFlows /\ Starts(Calls, {"US"}, {})
  \/ OwnSteps(Calls, {})
  \/ NoneInFlight /\ Polling

\* the launch button of the verification form, pressed at any time
NextLaunch ==
  \/ ~isSubmitting /\ Len(riskLog) < MaxFlows /\ Starts(Calls, {"SA", "SD"}, {})
  \/ \E c \in Calls : LaunchIgnored(c)
  \/ Steps(Calls, {})

\* one session is created, then days go by between its status polls
NextExpiry ==
  \/ NoneInFlight /\ riskLog = << >> /\ Starts(Calls, {"US"}, {})
  \/ OwnSteps(Calls, {})
  \/ NoneInFlight /\ LongWait
  \/ NoneInFlight /\ Polling

\* launches for the two countries with a registry, one at a time; the
\* registry answers when it pleases
NextRegistry ==
  \/ NoneInFlight /\ Len(riskLog) < MaxFlows /\ Starts(Calls, {"SA", "SD"}, {})
  \/ Steps(Calls, {})

\* the risk engine in a browser that has been used before
NextHistory ==
  \/ Tick
  \/ \E c \in Calls, cc \in Countries : ClientStart(c, cc)

\* one session is created, the provider works on it, and the result page
\* follows it
NextPage ==
  \/ NoneInFlight /\ riskLog = << >> /\ Starts(Calls, {"US"}, {})
  \/ OwnSteps(Calls, {})
  \/ NoneInFlight /\ ProviderMove
  \/ NoneInFlight /\ PageSteps

\* the same, with the interval of setInterval firing as long as it is set
SpecPageFair ==
  InitPlain /\ [][NextPage]_vars /\ WF_vars(NoneInFlight /\ PageTick)

\* the operator works the stepper and launches once; the launch is followed
\* to its end
NextStepper ==
  \/ NoneInFlight /\ StepperSteps
  \/ NoneInFlight /\ riskLog = << >> /\ \E c \in Calls : handleLaunch(c)
  \/ Steps(Calls, {})

SpecStepper == InitPlain /\ [][NextStepper]_vars

\* the store, the sockets it made, and the preflight runs its changes start
NextNeural ==
  \/ NeuralSteps
  \/ PreflightDone

SpecNeural == InitPlain /\ [][NextNeural]_vars

\* one session is created; its status and the regional data are read, an
\* hour or a day apart
PollsIdle == \A p \in Pollers : poll[p].pc = "idle"
NoRead == NoneInFlight /\ PollsIdle /\ refGet.pc = "idle"
Untouched == riskLog = << >> /\ pollsIssued = 0 /\ refGet.served = 0 /\ ticks = 0

NextCache ==
  \/ NoRead /\ Untouched /\ Starts(Calls, {"US"}, {})
  \/ OwnSteps(Calls, {})
  \/ NoRead /\ LongWait
  \/ NoRead /\ \E p \in Pollers : PollFetch(p)
  \/ \E p \in Pollers : PollSelect(p)
  \/ \E p \in Pollers : PollUpdate(p)
  \/ NoRead /\ RefGetStart
  \/ RefGetQuery
  \/ RefGetPut

Next ==
  \/ Environment
  \/ LongWait
  \/ Starts(Calls, Countries, Directs)
  \/ \E c \in Calls : LaunchIgnored(c)
  \/ Steps(Calls, Directs)
  \/ Polling
  \/ PageSteps
  \/ RefGets
  \/ StepperSteps
  \/ \E c \in Calls : handleLaunch(c)
  \/ NeuralSteps

Spec == Init /\ [][Next]_vars
SpecRisk == Init /\ [][NextRisk]_vars
SpecCreate == Init /\ [][NextCreate]_vars
SpecDirect == InitPlain /\ [][NextDirect]_vars
SpecPoll == InitPlain /\ [][NextPoll]_vars
SpecLaunch == Init /\ [][NextLaunch]_vars
SpecExpiry == InitPlain /\ [][NextExpiry]_vars
SpecHistory == InitUsed /\ [][NextHistory]_vars
SpecPage == InitPlain /\ [][NextPage]_vars

SpecCache == InitPlain /\ [][NextCache]_vars
\* every step of the application that can be taken is taken in the end: the
\* event loop and the edge runtime run what is runnable; nothing obliges the
\* registry to answer
SpecRegistry == Init /\ [][NextRegistry]_vars /\ WF_vars(OwnSteps(Calls, {}))


(* ------------------------------ properties ----------------------------- *)
BlockedLaunch(r) == r.origin = "client" /\ ~r.check.isValid
ServerState == << provider, providerCalls, db, kvSessions, kvNeural >>

C1_BlockedStops ==
  \A c \in Calls : BlockedLaunch(req[c]) =>
    /\ req[c].pc = "done"
    /\ req[c].outcome = "threw"
    /\ req[c].check.blockedReason # NoReason
    /\ req[c].error = SecurityError(req[c].check.blockedReason)
    /\ ~req[c].posted
    /\ req[c].stripeId = 0
    /\ req[c].status = 0

C1_BlockStep ==
  (Len(riskLog') = Len(riskLog) + 1 /\ ~riskLog'[Len(riskLog')].result.isValid)
    => UNCHANGED ServerState

\* C1: a launch whose risk decision is block ends at once by throwing an error
\* that carries the blockedReason; it is never posted to the
\* create-verification-session endpoint, reaches no provider, and the step that
\* blocks it leaves the provider, the durable store and both caches untouched.
C1_BlockedLaunchEndsUnposted == [](C1_BlockedStops) /\ [][C1_BlockStep]_vars

C1_Witness ==
  /\ \E c \in Calls : BlockedLaunch(req[c])
  /\ riskLog[1].result.isValid
  /\ providerCalls > 0 /\ DOMAIN db # {}

BadFacility(f) ==
  /\ f # Absent
  /\ \/ f \notin DOMAIN FacilityTable
     \/ ~FacilityTable[f].is_active
     \/ ~FacilityTable[f].nphies_certified

BadWilaya(w) ==
  /\ w # Absent
  /\ \/ w \notin DOMAIN WilayaTable
     \/ ~WilayaTable[w].is_active

RejectedBody(b) ==
  \/ b.country_code = "SA" /\ b.healthcare_context # NoCtx
       /\ BadFacility(b.healthcare_context)
  \/ b.country_code = "SD" /\ b.national_context # NoCtx
       /\ BadWilaya(b.national_context)

C2_Rejected ==
  \A r \in Reqs : (req[r].posted /\ RejectedBody(req[r].body)) =>
    /\ req[r].pc \in {"srvValidate", "responded"}
    /\ req[r].stripeId = 0
    /\ req[r].pc = "responded" =>
         \/ req[r].status = 400
         \/ req[r].status = 500 /\ req[r].error = ServerError("registry")

C2_RejectStep ==
  \A r \in Reqs :
    (req'[r] # req[r] /\ req'[r].posted /\ RejectedBody(req'[r].body))
      => UNCHANGED ServerState

TerminalStored == {"verified", "failed", "canceled"}

\* C3: once the stored status of a session is verified, failed or canceled,
\* no step changes it again.
C3_TerminalStatusFrozen ==
  [][\A id \in DOMAIN db :
       db[id].session_status \in TerminalStored
         => db'[id].session_status = db[id].session_status]_vars

CallsFor(k) == Cardinality({i \in 1..Len(riskLog) : riskLog[i].key = k})

\* C4: for every session key the attempt count equals the number of
\* session-creation calls made for that key, whatever number of status polls
\* ran in between (each call adds exactly 1, a poll adds nothing).
C4_AttemptsCountCreations ==
  /\ \A k \in DOMAIN securityMetrics : Attempts(k) = CallsFor(k)
  /\ \A i \in 1..Len(riskLog) : HasMetrics(riskLog[i].key)

C4_Witness ==
  /\ \E k \in DOMAIN securityMetrics : Attempts(k) = 2
  /\ pollsIssued >= 2
  /\ \E p \in Pollers : poll[p].pc = "idle" /\ poll[p].status = 200
  /\ \E id \in DOMAIN db : db[id].session_status = "processing"

\* C5: completed_at is written exactly once per session, at the poll where
\* the stored status first becomes verified, failed or canceled: no write
\* before that, one write at that poll, none after it.
C5_CompletedAtWrittenOnce ==
  \A id \in DOMAIN db :
    /\ completedWrites[id] <= 1
    /\ db[id].session_status \in TerminalStored => completedWrites[id] = 1
    /\ db[id].session_status = "created" => completedWrites[id] = 0

\* C6: a request is blocked exactly when its risk score is at least 70, and
\* its result carries a blockedReason exactly when it is blocked.
C6_BlockIffThreshold ==
  \A i \in 1..Len(riskLog) :
    LET res == riskLog[i].result
    IN /\ res.isValid <=> res.riskScore < 70
       /\ res.blockedReason # NoReason <=> ~res.isValid
       /\ ~res.isValid =>
            res.blockedReason \in {"High fraud risk detected",
                                   "Suspicious activity patterns"}

C6_Witness ==
  /\ \E i \in 1..Len(riskLog) : riskLog[i].result.riskScore = 70
                                 /\ ~riskLog[i].result.isValid
  /\ \E i \in 1..Len(riskLog) : riskLog[i].result.riskScore = 30
                                 /\ riskLog[i].result.isValid

\* C7: every risk score returned lies in 0..100.
C7_ScoreInRange ==
  \A i \in 1..Len(riskLog) : riskLog[i].result.riskScore \in 0..100

\* C8: the 4th of four launches for the same country made within 5 seconds
\* with the same device fingerprint is blocked with reason
\* "High fraud risk detected".
C8_FourthAttemptBlocked ==
  \A i \in 4..Len(riskLog) :
    ( /\ \A j \in (i - 3)..i : /\ riskLog[j].country = riskLog[i].country
                               /\ riskLog[j].fp = riskLog[i].fp
      /\ riskLog[i].t - riskLog[i - 3].t < 5000 )
    => /\ ~riskLog[i].result.isValid
       /\ riskLog[i].result.blockedReason = "High fraud risk detected"

\* C9: a first launch for SA from a device whose fingerprint matches and that
\* shows no automation indicator gets risk score 0 and is let through.
C9_FirstSaudiLaunchScoresZero ==
  ( /\ Len(riskLog) >= 1
    /\ riskLog[1].country = "SA"
    /\ riskLog[1].fp = riskLog[1].recordedFp
    /\ ~env.headless /\ ~env.automation )
  => /\ riskLog[1].result.riskScore = 0
     /\ riskLog[1].result.isValid

\* C10: the burst contribution of 30 is part of a request's score exactly
\* when a previous attempt for the same session key was made less than 5
\* seconds before it.
C10_BurstOnlyAfterRecentAttempt ==
  \A i \in 1..Len(riskLog) :
    riskLog[i].burst = 30
      <=> (riskLog[i].hadMetrics /\ riskLog[i].t - riskLog[i].prevLast < 5000)

\* the metrics a logged request found, and the same with the presented
\* fingerprint recorded at session start
FoundMetrics(e) ==
  [ NewMetrics(e.recordedFp) EXCEPT !.verificationAttempts = e.prevAttempts,
                                    !.lastAttemptTimestamp = e.prevLast ]
MatchingScore(e) ==
  RiskScore(BumpAttempt([FoundMetrics(e) EXCEPT !.deviceFingerprint = e.fp], e.t),
            e.t, e.fp, env)

\* C11: a request whose fingerprint differs from the one recorded at session
\* start scores exactly 40 more than the otherwise-identical request with the
\* matching fingerprint (and a matching one scores just that).
C11_MismatchAddsForty ==
  \A i \in 1..Len(riskLog) :
    LET e == riskLog[i]
    IN e.result.riskScore =
         MatchingScore(e) + (IF e.fp # e.recordedFp THEN 40 ELSE 0)

C11_Witness ==
  \E i \in 1..Len(riskLog) :
    /\ riskLog[i].fp # riskLog[i].recordedFp
    /\ riskLog[i].prevAttempts = 3
    /\ riskLog[i].result.riskScore > 100

\* the signals a request presents: attempt history, fingerprint match, and
\* the automation / geo indicators (fixed for a browser)
Signals(e) ==
  << e.hadMetrics, e.prevAttempts, e.t - e.prevLast, e.fp = e.recordedFp,
     env.enableAdvancedFraudDetection, env.headless, env.automation,
     detectLocationMismatch, detectVPNUsage >>

C13_PollsSerialised ==
  [][\A p \in Pollers : \A id \in DOMAIN db :
       ( /\ poll[p].pc = "update" /\ poll'[p].pc = "idle"
         /\ db'[id].session_status # db[id].session_status )
       => poll[p].seq > db[id].status_seq]_vars

InFlight(c) == req[c].origin = "client" /\ req[c].pc \notin {"idle", "done"}

\* C14: at most one launch is in flight per sessionOID, and a launch
\* attempted while another one is in flight ends with the outcome conflict.
C14_SecondLaunchConflicts ==
  /\ \A c1, c2 \in Calls :
       (c1 # c2 /\ InFlight(c1) /\ InFlight(c2)) => req[c1].oid # req[c2].oid
  /\ \A c \in Calls :
       (req[c].origin = "client" /\ req[c].oid = NoOid)
         => req[c].outcome = "conflict"

\* C15: any two session creations get distinct sessionOIDs: no two calls of
\* the browser service share an OID, and the OID the edge function gives a
\* request is not the OID of a session already stored.
C15_DistinctSessionOids ==
  /\ \A i, j \in 1..Len(riskLog) : i # j => riskLog[i].key # riskLog[j].key
  /\ \A r \in Reqs : req[r].pc = "srvInsert" => ~OidTaken(req[r].srvOid)

\* C16: on session creation the durable insert comes before the cache
\* write: the SESSIONS namespace holds an entry only for a session whose row
\* is in verification_sessions, and the step that writes the entry finds the
\* row already there.
C16_NoCacheOnlySession ==
  /\ [](DOMAIN kvSessions \subseteq DOMAIN db)
  /\ [][\A id \in DOMAIN kvSessions' \ DOMAIN kvSessions : id \in DOMAIN db]_vars

C16_Witness ==
  /\ DOMAIN kvSessions # {}
  /\ \E r \in Reqs :
       /\ req[r].error = ServerError("store")
       /\ req[r].stripeId \in DOMAIN provider
       /\ req[r].stripeId \notin DOMAIN db
       /\ req[r].stripeId \notin DOMAIN kvSessions

\* C17: a failure of the neural store write does not change the outcome of
\* session creation: a request whose provider session, row and cache entry
\* were written is answered 200.
C17_NeuralFailureHarmless ==
  \A r \in Reqs :
    ( /\ req[r].pc = "responded"
      /\ req[r].stripeId \in DOMAIN db
      /\ req[r].stripeId \in DOMAIN kvSessions )
    => req[r].status = 200

\* C18: a failed regional registry lookup is not treated as a pass: the
\* launch goes on, but what it hands on is flagged, i.e. differs from what
\* is handed on after a lookup that passed.
C18_RegistryFailureFlagged ==
  \A c \in Calls :
    (req[c].origin = "client" /\ req[c].regional = "warned" /\ req[c].posted)
      => req[c].body # ClientBody([req[c] EXCEPT !.regional = "ok"])

ProviderFailed(r) ==
  /\ r.pc = "responded"
  /\ r.status \in ProviderErrorStatuses \/ r.error = ServerError("provider")

\* C19: a request whose provider call failed is answered as failed only
\* after the call was made a second time (exactly one retry), with the
\* reason provider_unreachable.
C19_ProviderCallRetriedOnce ==
  \A r \in Reqs :
    ProviderFailed(req[r])
      => /\ req[r].providerTries = 2
         /\ req[r].error = << "provider_unreachable", "provider" >>

\* C20: a status check made at or after expires_at on a session stored as
\* processing, with the provider still processing, leaves the stored status
\* failed.
C20_ExpiredSessionFails ==
  [][\A p \in Pollers :
       LET id == poll[p].id
       IN ( /\ poll[p].pc = "update" /\ poll'[p].pc = "idle"
            /\ poll'[p].status = 200
            /\ id \in DOMAIN db
            /\ poll[p].dbStatus = "processing"
            /\ poll[p].stripeStatus = "processing"
            /\ now >= db[id].expires_at )
          => db'[id].session_status = "failed"]_vars

\* C21: every launch that reached the regional pre-verification gets past it
\* in the end (it goes on to the POST of the session), whether or not the
\* registry ever answers.
C21_RegistryNeverBlocks ==
  \A c \in Calls :
    (req[c].pc = "regional") ~> (req[c].pc \notin {"regional", "awaitRegistry"})

BadMinistry(m) ==
  /\ m # Absent
  /\ \/ m \notin DOMAIN MinistryTable
     \/ ~MinistryTable[m].is_active

\* C22: a POST for SD with a national-id context goes on to the provider
\* only if its wilayaCode is active and its ministryCode, when there is one,
\* is active too: with an unknown or inactive ministryCode the request is
\* refused and no provider session is made for it.
C22_InactiveMinistryRejected ==
  \A r \in Reqs :
    ( /\ req[r].posted
      /\ req[r].body.country_code = "SD"
      /\ req[r].body.national_context # NoCtx
      /\ BadMinistry(req[r].body.ministry_code) )
    => /\ req[r].stripeId = 0
       /\ req[r].pc = "responded" => req[r].status \in {400, 500}

\* bodies for which no regional check can fail: SA with a healthcare context
\* that has no facilityCode, and any country other than SA and SD
PassThroughBody(b) ==
  \/ b.country_code = "SA" /\ b.healthcare_context = Absent
  \/ b.country_code \notin {"SA", "SD"}

C23_Passed ==
  \A r \in Reqs : (req[r].posted /\ PassThroughBody(req[r].body)) =>
    /\ req[r].lookups = 0
    /\ req[r].error # ServerError("registry")
    /\ req[r].pc = "responded" => (req[r].status # 400 /\ req[r].providerTries = 1)

C23_PassStep ==
  \A r \in Reqs :
    (req[r].pc = "srvValidate" /\ PassThroughBody(req[r].body) /\ req'[r] # req[r])
      => req'[r].pc = "srvStripe"

\* C23: an SA request whose healthcare context has no facilityCode, and any
\* request whose country is neither SA nor SD, passes the regional validation
\* and goes on to the provider call; no reference table is queried for them
\* and none of them is answered 400.
C23_MissingCodeAndOtherCountriesPass == [](C23_Passed) /\ [][C23_PassStep]_vars

C23_Witness ==
  /\ \E r \in Directs :
       /\ req[r].body.country_code = "SA" /\ req[r].body.healthcare_context = Absent
       /\ req[r].pc = "responded" /\ req[r].status = 200
  /\ \E id \in DOMAIN db :
       db[id].country_context = "US" /\ db[id].healthcare_context = "KSA999"

\* at most one regional context, and the one that goes with the country
AttachmentMatches(country, hc, nc) ==
  /\ hc # NoCtx => country = "SA"
  /\ nc # NoCtx => country = "SD"

\* C24: every session the browser submits and every session stored in
\* verification_sessions carries at most one regional context and that
\* context goes with its country: a healthcare context only for SA, a
\* national-id context only for SD.
C24_OneAttachmentMatchingCountry ==
  /\ \A c \in Calls : req[c].posted =>
       AttachmentMatches(req[c].body.country_code, req[c].body.healthcare_context,
                         req[c].body.national_context)
  /\ \A id \in DOMAIN db :
       AttachmentMatches(db[id].country_context, db[id].healthcare_context,
                         db[id].national_context)

\* C27: a neural sync whose delivery fails is tried again: no dispatch makes
\* more than 3 delivery attempts, and a dispatch is given up as failed only
\* after its 3rd attempt failed.
C27_SyncRetriedUpToThree ==
  \A c \in Calls :
    /\ req[c].syncTries <= 3
    /\ req[c].sync = "failed" => req[c].syncTries = 3

\* C29: with advanced fraud detection on, headless-browser indicators add 50
\* to the score, automation-tooling signatures add 50, and the two together
\* add at most 100.
C29_AutomationAddsFiftyEach ==
  \A i \in 1..Len(riskLog) :
    env.enableAdvancedFraudDetection =>
      riskLog[i].advanced =
        Min((IF env.headless THEN 50 ELSE 0) + (IF env.automation THEN 50 ELSE 0),
            100)

\* C30: a launch that the risk check blocks returns normally to its caller
\* with the decision block and the blockedReason; it does not end by
\* throwing.
C30_BlockReturnedNotThrown ==
  \A c \in Calls : BlockedLaunch(req[c]) =>
    /\ req[c].outcome # "threw"
    /\ req[c].pc = "done" => req[c].outcome = "returned"
    /\ req[c].check.blockedReason # NoReason

\* the assessments kept by the service: the score stored with each session
\* key, and the incidents in localStorage
IsPrefix(a, b) == Len(a) <= Len(b) /\ SubSeq(b, 1, Len(a)) = a

\* C28: what is kept of the risk assessments only grows: every
\* session-creation attempt adds a stored assessment, the score stored for an
\* earlier attempt is still there unchanged afterwards, and the incidents
\* recorded so far are all still there, in order, after a new one is recorded.
C28_AssessmentsAppendOnly ==
  [][Len(riskLog') = Len(riskLog) + 1 =>
       /\ Cardinality(DOMAIN securityMetrics')
            = Cardinality(DOMAIN securityMetrics) + 1
       /\ \A k \in DOMAIN securityMetrics :
            /\ k \in DOMAIN securityMetrics'
            /\ securityMetrics'[k].suspiciousActivityScore
                 = securityMetrics[k].suspiciousActivityScore
       /\ IsPrefix(incidents, incidents')]_vars

\* C25: the result page treats every status but processing as final. A
\* timer request that reports processing leaves the polling timer running,
\* and the timer issues a status request only while the last status seen is
\* processing (or none was seen yet): once another status was seen, no
\* automatic request follows.
C25_PollsOnlyWhileProcessing ==
  [][/\ page'.autoIssued > page.autoIssued
          => page.result \in {NoStatus, "processing"}
     /\ ( /\ page'.autoPending < page.autoPending
          /\ page.timer
          /\ page'.last = "processing" )
          => page'.timer]_vars

\* C26: a read consults the fast cache first and a hit is answered without
\* querying the durable store; on a miss the store is read and the cache is
\* filled again, for at most an hour for reference data and at most five
\* minutes for a session status. Here: a reference read that hit made no
\* query, a status read that found its session in the cache makes no query of
\* the database, and every cache entry carries a TTL within its limit.
C26_CacheFirstReads ==
  /\ refGet.hit => ~refGet.queried
  /\ \A p \in Pollers :
       poll[p].cachedOid # NoOid => poll[p].dbStatus = "none"
  /\ \A k \in DOMAIN kvCache :
       /\ k[1] = "sudan_national" => kvCache[k].ttl <= ReferenceTtl
       /\ k[1] = "session" => kvCache[k].ttl <= StatusTtl

\* what a request has left behind: the provider session it created, its row
\* in verification_sessions, its SESSIONS entry, its NEURAL_CONTEXT entry
Remains(r) ==
  \/ req[r].stripeId \in DOMAIN provider
  \/ req[r].stripeId \in DOMAIN db
  \/ req[r].stripeId \in DOMAIN kvSessions
  \/ /\ req[r].srvOid \in DOMAIN kvNeural
     /\ kvNeural[req[r].srvOid] = req[r].stripeId

\* C31: session creation is atomic with rollback: when the endpoint has
\* answered a request with a status other than 200, nothing of that request
\* remains: no provider session, no row in the durable store, no session
\* cache entry and no neural-context entry.
C31_FailedCreationLeavesNothing ==
  \A r \in Calls \cup Directs :
    (req[r].status # 0 /\ req[r].status # 200) => ~Remains(r)

\* C32: one session creation has a single sessionOID: the OID that
\* createVerificationSession scored the request under and returns to the UI
\* as `oid` is the brainsait_oid the endpoint generated, stored in the row
\* of the session and put in the session cache.
C32_OneSessionOid ==
  \A c \in Calls :
    req[c].outcome = "returned" =>
      /\ req[c].oid = req[c].srvOid
      /\ req[c].stripeId \in DOMAIN db
           => db[req[c].stripeId].session_oid = req[c].oid
      /\ req[c].stripeId \in DOMAIN kvSessions
           => kvSessions[req[c].stripeId].session_oid = req[c].oid

\* C33: every automatic polling run on the result page ends: a timer
\* request answered with a terminal status or with a failure stops the timer,
\* and one run makes at most MAX_POLL_ATTEMPTS status requests, also when
\* the provider keeps reporting processing and the responses are slower
\* than the polling interval.
C33_PollingRunBounded ==
  [][/\ page'.attempts <= MAX_POLL_ATTEMPTS
     /\ ( /\ page'.autoPending < page.autoPending
          /\ page'.last # "processing" )
          => ~page'.timer]_vars

\* C34: a result page never has more than one polling interval running,
\* whatever the order of the initial load, manual refreshes, timer ticks and
\* unmount, and an interval that is running after the page was unmounted is
\* cleared in the end.
C34_OneTimer ==
  /\ [](page.intervals <= 1)
  /\ (page.gone /\ page.intervals > 0) ~> (page.intervals = 0)

\* a manual refresh answered after the unmount has started an interval
C34_Witness == page.gone /\ page.intervals = 1 /\ page.manualIssued > 0

\* a call of refreshStatus gets its response in this step
ResponseTaken ==
  \/ page'.autoPending < page.autoPending
  \/ page.manualPending /\ ~page'.manualPending
  \/ page'.staleInit < page.staleInit

\* C38: a status response that arrives when the result page is unmounted
\* (sessionIdRef no longer holds the id the request was made for) is not
\* applied: the verification result stays as it was and no polling error is
\* set from it.
C38_StaleResponseDropped ==
  [][(page.gone /\ ResponseTaken) =>
       /\ page'.result = page.result
       /\ page'.pollingError \in {page.pollingError, NoError}]_vars

\* the page is gone showing processing while the provider says verified, and
\* a manual refresh answered after the unmount has set the interval
C38_Witness ==
  /\ page.gone
  /\ page.timer
  /\ page.result = "processing"
  /\ provider[page.url] = "verified"

\* the store says connected exactly when it holds a socket that is open
StoreConsistent(st) ==
  st.isConnected <=>
    (st.mcpConnection # NoSocket /\ st.sockets[st.mcpConnection] = "open")

\* socket i gets its close event in this step while a newer socket is open
OlderClosed(i) ==
  /\ i \in DOMAIN neuralStore.sockets
  /\ neuralStore.sockets[i] # "closed"
  /\ neuralStore'.sockets[i] = "closed"
  /\ \E j \in DOMAIN neuralStore.sockets : j > i /\ neuralStore'.sockets[j] = "open"

\* C35: in the neural store isConnected is true exactly when mcpConnection
\* is a WebSocket that is open, whatever the order of initializeMCP calls,
\* socket events and disconnect; and the close event of an older socket does
\* not mark the store disconnected while a newer socket is open.
C35_ConnectedIffOpenSocket ==
  [][/\ StoreConsistent(neuralStore')
     /\ \A i \in 1..MaxSockets :
          (neuralStore.isConnected /\ OlderClosed(i)) => neuralStore'.isConnected]_vars

\* C36: the stepper calls createVerificationSession only when the preflight
\* status it holds is completed (no failed check), the form has no issue of
\* severity error and the operator has ticked the acknowledgement, whatever
\* navigation, edits and preflight re-runs came before.
C36_LaunchOnlyWhenReady ==
  [][Len(riskLog') > Len(riskLog) =>
       /\ stepper.completed
       /\ validationValid(stepper)
       /\ stepper.acknowledged]_vars

\* C37: when create-verification-session has answered 200, the durable store
\* holds a row and the session cache an entry for the provider session id of
\* the response, and both carry the brainsait_oid of the response.
C37_CreatedSessionStoredTwice ==
  \A r \in Reqs :
    req[r].status = 200 =>
      /\ req[r].stripeId \in DOMAIN db
      /\ db[req[r].stripeId].session_oid = req[r].srvOid
      /\ req[r].stripeId \in DOMAIN kvSessions
      /\ kvSessions[req[r].stripeId].session_oid = req[r].srvOid

C37_Witness ==
  \E r \in Directs :
    /\ req[r].status = 200
    /\ req[r].body.neural
    /\ req[r].srvOid \in DOMAIN kvNeural
    /\ db[req[r].stripeId].session_oid = req[r].srvOid

====
